---- MODULE Spec2Model ----
(***************************************************************************)
(* Model of the wage-calculator MCP server, src/src/index.ts.              *)
(*                                                                         *)
(* Numbers.  A JavaScript number x is modelled by the integer 1000 * x     *)
(* (fixed point, thousandths), and the arithmetic is exact: a product or a *)
(* quotient that is not a whole number of thousandths stops the check      *)
(* (Exact) instead of being rounded.  The literals of the source keep      *)
(* their value: 0.164 is the ratio 164/1000, 21.75 is 2175/100.            *)
(* Floating-point rounding (relative error 2^-53) is not modelled.         *)
(***************************************************************************)
EXTENDS Integers, Sequences, FiniteSets

VARIABLES request, response, log, taxCalls

vars == <<request, response, log, taxCalls>>

----------------------------------------------------------------------------
(* Exact fixed-point arithmetic                                            *)

\* n as a model number (thousandths).
Yuan(n) == n * 1000

\* a / b when b divides a; no value otherwise (the check stops).
Exact(a, b) == IF a % b = 0 THEN a \div b ELSE CHOOSE q \in {} : FALSE

\* x * (p / q), exact, without forming x * p.
Times(x, p, q) == (x \div q) * p + Exact((x % q) * p, q)

\* x * y for two model numbers.
Mul(x, y) == Times(x, y, 1000)

----------------------------------------------------------------------------
(* JavaScript values of the request arguments                              *)

Undefined == [t |-> "undefined", v |-> 0]
Null == [t |-> "null", v |-> 0]
Str == [t |-> "string", v |-> 0]
Num(n) == [t |-> "number", v |-> n]

\* typeof x
TypeOf(x) == IF x.t = "null" THEN "object" ELSE x.t

\* a ?? b
Coalesce(a, b) == IF a.t \in {"undefined", "null"} THEN b ELSE a.v

DEFAULT_VALUES ==
  [base_salary |-> Yuan(10000),
   overtime_hours |-> 0,
   overtime_rate |-> 1500,
   bonus |-> 0]

\* isValidWageArgs with base_salary checked against the schema's minimum
\* (>= 0) instead of > 0.
isValidWageArgsSchemaMinimum(args) ==
  /\ TypeOf(args) = "object"
  /\ args.t # "null"
  /\ (args.base_salary = Undefined
        \/ (TypeOf(args.base_salary) = "number" /\ args.base_salary.v >= 0))
  /\ (args.overtime_hours = Undefined
        \/ (TypeOf(args.overtime_hours) = "number" /\ args.overtime_hours.v >= 0))
  /\ (args.overtime_rate = Undefined \/ TypeOf(args.overtime_rate) = "number")
  /\ (args.bonus = Undefined
        \/ (TypeOf(args.bonus) = "number" /\ args.bonus.v >= 0))

isValidWageArgs(args) ==
  /\ TypeOf(args) = "object"
  /\ args.t # "null"
  /\ (args.base_salary = Undefined
        \/ (TypeOf(args.base_salary) = "number" /\ args.base_salary.v > 0))
  /\ (args.overtime_hours = Undefined
        \/ (TypeOf(args.overtime_hours) = "number" /\ args.overtime_hours.v >= 0))
  /\ (args.overtime_rate = Undefined \/ TypeOf(args.overtime_rate) = "number")
  /\ (args.bonus = Undefined
        \/ (TypeOf(args.bonus) = "number" /\ args.bonus.v >= 0))

\* calculateIndividualIncomeTax with the second bracket's quick deduction
\* applied in the first bracket as well.
calculateIndividualIncomeTaxDeductFirst(monthlyIncome) ==
  LET Y == monthlyIncome - Yuan(5000) IN
  IF Y <= 0 THEN 0
  ELSE IF Y <= Yuan(5000) THEN Times(Y, 3, 100) - Yuan(210)
  ELSE IF Y <= Yuan(12000) THEN Times(Y, 1, 10) - Yuan(210)
  ELSE IF Y <= Yuan(25000) THEN Times(Y, 15, 100) - Yuan(1410)
  ELSE IF Y <= Yuan(35000) THEN Times(Y, 2, 10) - Yuan(2660)
  ELSE IF Y <= Yuan(55000) THEN Times(Y, 25, 100) - Yuan(4410)
  ELSE IF Y <= Yuan(80000) THEN Times(Y, 3, 10) - Yuan(7160)
  ELSE Times(Y, 35, 100) - Yuan(15160)

calculateIndividualIncomeTax(monthlyIncome) ==
  LET Y == monthlyIncome - Yuan(5000) IN
  IF Y <= 0 THEN 0
  ELSE IF Y <= Yuan(5000) THEN Times(Y, 3, 100)
  ELSE IF Y <= Yuan(12000) THEN Times(Y, 1, 10) - Yuan(210)
  ELSE IF Y <= Yuan(25000) THEN Times(Y, 15, 100) - Yuan(1410)
  ELSE IF Y <= Yuan(35000) THEN Times(Y, 2, 10) - Yuan(2660)
  ELSE IF Y <= Yuan(55000) THEN Times(Y, 25, 100) - Yuan(4410)
  ELSE IF Y <= Yuan(80000) THEN Times(Y, 3, 10) - Yuan(7160)
  ELSE Times(Y, 35, 100) - Yuan(15160)

\* inputSchema of the calculate_wage tool, as tools/list advertises it.
inputSchema ==
  [base_salary |-> [type |-> "number", minimum |-> 0, default |-> Yuan(10000)],
   overtime_hours |-> [type |-> "number", minimum |-> 0, default |-> 0],
   overtime_rate |-> [type |-> "number", minimum |-> 1000, default |-> 1500],
   bonus |-> [type |-> "number", minimum |-> 0, default |-> 0]]

\* throw new McpError(code, message)
McpError(code, message) ==
  [kind |-> "error", code |-> code, message |-> message, content |-> <<>>]

\* WageResult with the tax computed on taxableIncome, so that the 5000
\* allowance is taken off twice.
WageResultDoubleAllowance(args) ==
  LET baseSalary == Coalesce(args.base_salary, DEFAULT_VALUES.base_salary)
      overtimeHours == Coalesce(args.overtime_hours, DEFAULT_VALUES.overtime_hours)
      overtimeRate == Coalesce(args.overtime_rate, DEFAULT_VALUES.overtime_rate)
      bonus == Coalesce(args.bonus, DEFAULT_VALUES.bonus)
      \* overtimeHours * (baseSalary / 21.75) * overtimeRate, evaluated as
      \* baseSalary * (overtimeHours / 21.75) * overtimeRate: the same real
      \* number, and the quotient is a whole number of thousandths.
      overtimePay ==
        Mul(Mul(baseSalary, Times(overtimeHours, 100, 2175)), overtimeRate)
      totalMonthlySalary == baseSalary + overtimePay + bonus
      insuranceBase == baseSalary
      personalInsuranceTotal == Times(insuranceBase, 164, 1000)
      companyInsuranceTotal == Times(insuranceBase, 3156, 10000)
      preTaxSalary == totalMonthlySalary - personalInsuranceTotal
      taxableIncome == preTaxSalary - Yuan(5000)
      incomeTax ==
        IF taxableIncome > 0 THEN calculateIndividualIncomeTax(taxableIncome) ELSE 0
      netSalary == preTaxSalary - incomeTax
      personalInsurance ==
        [pension |-> Times(insuranceBase, 8, 100),
         unemployment |-> Times(insuranceBase, 4, 1000),
         injury |-> Times(insuranceBase, 0, 1),
         medical |-> Times(insuranceBase, 2, 100),
         housing_fund |-> Times(insuranceBase, 6, 100),
         total_personal |-> personalInsuranceTotal]
      companyInsurance ==
        [pension |-> Times(insuranceBase, 16, 100),
         unemployment |-> Times(insuranceBase, 6, 1000),
         injury |-> Times(insuranceBase, 156, 10000),
         medical |-> Times(insuranceBase, 7, 100),
         housing_fund |-> Times(insuranceBase, 6, 100),
         total_company |-> companyInsuranceTotal]
  IN [basic |-> baseSalary,
      overtime_pay |-> overtimePay,
      bonus |-> bonus,
      total_monthly_salary |-> totalMonthlySalary,
      pre_tax_salary |-> preTaxSalary,
      insurance_base |-> insuranceBase,
      personal_insurance |-> personalInsurance,
      company_insurance |-> companyInsurance,
      taxable_income |-> taxableIncome,
      individual_income_tax |-> incomeTax,
      net_salary |-> netSalary]

\* The object `result` the handler builds from validated arguments.
WageResult(args) ==
  LET baseSalary == Coalesce(args.base_salary, DEFAULT_VALUES.base_salary)
      overtimeHours == Coalesce(args.overtime_hours, DEFAULT_VALUES.overtime_hours)
      overtimeRate == Coalesce(args.overtime_rate, DEFAULT_VALUES.overtime_rate)
      bonus == Coalesce(args.bonus, DEFAULT_VALUES.bonus)
      \* overtimeHours * (baseSalary / 21.75) * overtimeRate, evaluated as
      \* baseSalary * (overtimeHours / 21.75) * overtimeRate: the same real
      \* number, and the quotient is a whole number of thousandths.
      overtimePay ==
        Mul(Mul(baseSalary, Times(overtimeHours, 100, 2175)), overtimeRate)
      totalMonthlySalary == baseSalary + overtimePay + bonus
      insuranceBase == baseSalary
      personalInsuranceTotal == Times(insuranceBase, 164, 1000)
      companyInsuranceTotal == Times(insuranceBase, 3156, 10000)
      preTaxSalary == totalMonthlySalary - personalInsuranceTotal
      taxableIncome == preTaxSalary - Yuan(5000)
      incomeTax ==
        IF taxableIncome > 0 THEN calculateIndividualIncomeTax(preTaxSalary) ELSE 0
      netSalary == preTaxSalary - incomeTax
      personalInsurance ==
        [pension |-> Times(insuranceBase, 8, 100),
         unemployment |-> Times(insuranceBase, 4, 1000),
         injury |-> Times(insuranceBase, 0, 1),
         medical |-> Times(insuranceBase, 2, 100),
         housing_fund |-> Times(insuranceBase, 6, 100),
         total_personal |-> personalInsuranceTotal]
      companyInsurance ==
        [pension |-> Times(insuranceBase, 16, 100),
         unemployment |-> Times(insuranceBase, 6, 1000),
         injury |-> Times(insuranceBase, 156, 10000),
         medical |-> Times(insuranceBase, 7, 100),
         housing_fund |-> Times(insuranceBase, 6, 100),
         total_company |-> companyInsuranceTotal]
  IN [basic |-> baseSalary,
      overtime_pay |-> overtimePay,
      bonus |-> bonus,
      total_monthly_salary |-> totalMonthlySalary,
      pre_tax_salary |-> preTaxSalary,
      insurance_base |-> insuranceBase,
      personal_insurance |-> personalInsurance,
      company_insurance |-> companyInsurance,
      taxable_income |-> taxableIncome,
      individual_income_tax |-> incomeTax,
      net_salary |-> netSalary]

\* JSON.stringify(result, null, 2): the members in the order the object
\* literals list them, each a <<path, number>> line of the text.
JSON_stringify(result) ==
  << <<"basic", result.basic>>,
     <<"overtime_pay", result.overtime_pay>>,
     <<"bonus", result.bonus>>,
     <<"total_monthly_salary", result.total_monthly_salary>>,
     <<"pre_tax_salary", result.pre_tax_salary>>,
     <<"insurance_base", result.insurance_base>>,
     <<"personal_insurance.pension", result.personal_insurance.pension>>,
     <<"personal_insurance.unemployment", result.personal_insurance.unemployment>>,
     <<"personal_insurance.injury", result.personal_insurance.injury>>,
     <<"personal_insurance.medical", result.personal_insurance.medical>>,
     <<"personal_insurance.housing_fund", result.personal_insurance.housing_fund>>,
     <<"personal_insurance.total_personal", result.personal_insurance.total_personal>>,
     <<"company_insurance.pension", result.company_insurance.pension>>,
     <<"company_insurance.unemployment", result.company_insurance.unemployment>>,
     <<"company_insurance.injury", result.company_insurance.injury>>,
     <<"company_insurance.medical", result.company_insurance.medical>>,
     <<"company_insurance.housing_fund", result.company_insurance.housing_fund>>,
     <<"company_insurance.total_company", result.company_insurance.total_company>>,
     <<"taxable_income", result.taxable_income>>,
     <<"individual_income_tax", result.individual_income_tax>>,
     <<"net_salary", result.net_salary>> >>

\* The handler with the two checks in the other order: arguments first.
CallToolRequestHandlerValidateFirst(req) ==
  IF ~isValidWageArgs(req.arguments)
  THEN McpError("InvalidParams", <<"Invalid wage calculation arguments">>)
  ELSE IF req.name # "calculate_wage"
  THEN McpError("MethodNotFound", <<"Unknown tool: ", req.name>>)
  ELSE [kind |-> "result", code |-> "", message |-> <<>>,
        content |-> <<[type |-> "text",
                       text |-> JSON_stringify(WageResult(req.arguments))]>>]

\* The CallToolRequestSchema handler: the response to one tools/call request.
CallToolRequestHandler(req) ==
  IF req.name # "calculate_wage"
  THEN McpError("MethodNotFound", <<"Unknown tool: ", req.name>>)
  ELSE IF ~isValidWageArgs(req.arguments)
  THEN McpError("InvalidParams", <<"Invalid wage calculation arguments">>)
  ELSE [kind |-> "result", code |-> "", message |-> <<>>,
        content |-> <<[type |-> "text",
                       text |-> JSON_stringify(WageResult(req.arguments))]>>]

\* The ListToolsRequestSchema handler.
ListToolsRequestHandler ==
  [kind |-> "tools", code |-> "", message |-> <<>>,
   content |-> <<[name |-> "calculate_wage", inputSchema |-> inputSchema]>>]

----------------------------------------------------------------------------
(* The requests a client sends                                             *)

BaseSalaryValues ==
  {Undefined, Str, Num(0), Num(Yuan(-100)), Num(Yuan(3000)), Num(Yuan(10000)),
   Num(Yuan(30000))}
OvertimeHoursValues ==
  {Undefined, Str, Num(Yuan(-1)), Num(0), Num(8700), Num(Yuan(174))}
OvertimeRateValues ==
  {Undefined, Str, Num(-1000), Num(500), Num(1000), Num(2000)}
BonusValues ==
  {Undefined, Str, Num(Yuan(-1)), Num(0), Num(Yuan(1640)), Num(Yuan(1641))}
TaxRateValues == {Undefined, Num(1500)}

NoArguments(t) ==
  [t |-> t, base_salary |-> Undefined, overtime_hours |-> Undefined,
   overtime_rate |-> Undefined, bonus |-> Undefined, tax_rate |-> Undefined]

Arguments ==
  [t : {"object"}, base_salary : BaseSalaryValues,
   overtime_hours : OvertimeHoursValues, overtime_rate : OvertimeRateValues,
   bonus : BonusValues, tax_rate : TaxRateValues]
    \cup {NoArguments("undefined"), NoArguments("null"), NoArguments("string")}

ToolNames == {"calculate_wage", "calculate_tax"}

CallToolRequests ==
  [method : {"tools/call"}, name : ToolNames, arguments : Arguments]

ListToolsRequest ==
  [method |-> "tools/list", name |-> "", arguments |-> NoArguments("undefined")]

NoRequest == [method |-> "", name |-> "", arguments |-> NoArguments("undefined")]
NoResponse == [kind |-> "none", code |-> "", message |-> <<>>, content |-> <<>>]

----------------------------------------------------------------------------
(* The server: one request at a time, each answered before the next.       *)
(* request is the message the transport has handed to the server and       *)
(* response the reply on its way back; log is the history of the exchanges *)
(* (a history variable the server never reads).                            *)

Init ==
  /\ request = NoRequest
  /\ response = NoResponse
  /\ log = <<>>
  /\ taxCalls = <<>>

Idle == request = NoRequest /\ response = NoResponse

\* The transport delivers a tools/call request.
ReceiveCallTool(req) ==
  /\ Idle
  /\ request' = req
  /\ UNCHANGED <<response, log, taxCalls>>

\* The transport delivers a tools/list request.
ReceiveListTools ==
  /\ Idle
  /\ request' = ListToolsRequest
  /\ UNCHANGED <<response, log, taxCalls>>

\* The server runs the CallToolRequestSchema handler on the pending request.
CallTool ==
  /\ request.method = "tools/call"
  /\ response = NoResponse
  /\ response' = CallToolRequestHandler(request)
  /\ UNCHANGED <<request, log, taxCalls>>

\* The server runs the ListToolsRequestSchema handler.
ListTools ==
  /\ request.method = "tools/list"
  /\ response = NoResponse
  /\ response' = ListToolsRequestHandler
  /\ UNCHANGED <<request, log, taxCalls>>

\* The transport writes the reply; the server waits for the next request.
Reply ==
  /\ response # NoResponse
  /\ request' = NoRequest
  /\ response' = NoResponse
  /\ UNCHANGED <<log, taxCalls>>

Next ==
  \/ Idle /\ \E req \in CallToolRequests : ReceiveCallTool(req)
  \/ ReceiveListTools
  \/ CallTool
  \/ ListTools
  \/ Reply

Spec == Init /\ [][Next]_vars

----------------------------------------------------------------------------
(* Sequences of exchanges, recorded                                        *)

MaxRequests == 3

SeqRequests ==
  {r \in CallToolRequests :
     /\ r.arguments.overtime_hours = Undefined
     /\ r.arguments.overtime_rate = Undefined
     /\ r.arguments.tax_rate = Undefined
     /\ r.arguments.bonus \in {Undefined, Num(Yuan(1640)), Num(Yuan(1641))}
     /\ r.arguments.base_salary \in {Undefined, Num(0)}
     /\ r.arguments.t \in {"object"}}

ReceiveSeq(req) ==
  /\ Len(log) < MaxRequests
  /\ ReceiveCallTool(req)

\* CallToolLogged for a handler that keeps the arguments of the request
\* before as the defaults of the next one.
CallToolLoggedLeakingDefaults ==
  LET a == request.arguments
      p == IF log = <<>> THEN a ELSE log[Len(log)].request.arguments
      merged == [f \in DOMAIN a |->
                   IF f = "t" THEN a.t
                   ELSE IF a[f] = Undefined THEN p[f] ELSE a[f]]
  IN /\ request.method = "tools/call"
     /\ response = NoResponse
     /\ response' = CallToolRequestHandler([request EXCEPT !.arguments = merged])
     /\ log' = Append(log, [request |-> request, response |-> response'])
     /\ UNCHANGED <<request, taxCalls>>

\* CallTool, with the exchange appended to the history.
CallToolLogged ==
  /\ request.method = "tools/call"
  /\ response = NoResponse
  /\ response' = CallToolRequestHandler(request)
  /\ log' = Append(log, [request |-> request, response |-> response'])
  /\ UNCHANGED <<request, taxCalls>>

NextSeq ==
  \/ Idle /\ \E req \in SeqRequests : ReceiveSeq(req)
  \/ CallToolLogged
  \/ Reply

SpecSeq == Init /\ [][NextSeq]_vars

----------------------------------------------------------------------------
(* calculateIndividualIncomeTax on its own                                 *)

MaxTaxCalls == 2

\* The taxable amounts at which the bracket changes.
Boundaries ==
  {0, Yuan(5000), Yuan(12000), Yuan(25000), Yuan(35000), Yuan(55000), Yuan(80000)}

\* Monthly incomes at, just below and just above every boundary.
MonthlyIncomes ==
  {Yuan(5000) + b + d : b \in Boundaries, d \in {-1000, -100, 0, 100, 1000}}
    \cup {0, Yuan(-1000)}

TaxCall(monthlyIncome) ==
  /\ Len(taxCalls) < MaxTaxCalls
  /\ taxCalls' = Append(taxCalls,
                        [monthlyIncome |-> monthlyIncome,
                         tax |-> calculateIndividualIncomeTax(monthlyIncome)])
  /\ UNCHANGED <<request, response, log>>

NextTax == \E m \in MonthlyIncomes : TaxCall(m)

SpecTax == Init /\ [][NextTax]_vars

----------------------------------------------------------------------------
(* Reading a state                                                         *)

\* The pending tools/call request has been answered.
Answered == request.method = "tools/call" /\ response # NoResponse

WageCall == Answered /\ request.name = "calculate_wage"

Rejected(code) ==
  response.kind = "error" /\ response.code = code /\ response.content = <<>>

\* The request was accepted: the reply carries a wage breakdown.
Returned == Answered /\ response.kind = "result"

\* The number the result text gives for a member.
Field(key) ==
  LET text == response.content[1].text
  IN text[CHOOSE i \in DOMAIN text : text[i][1] = key][2]

Present(x) == x # Undefined

IsNumber(x) == x.t = "number"

Abs(n) == IF n < 0 THEN -n ELSE n

----------------------------------------------------------------------------
(* Claims                                                                  *)

C2_TaxMonotone ==
  \A i, j \in DOMAIN taxCalls :
    taxCalls[i].monthlyIncome <= taxCalls[j].monthlyIncome
      => taxCalls[i].tax <= taxCalls[j].tax

\* C3: calculateIndividualIncomeTax has no jump at a bracket boundary: the
\* tax at a boundary amount and the tax 0.1 above it differ by no more than
\* the 0.1 (every marginal rate is below 1).
C3_TaxContinuousAtBoundaries ==
  \A i, j \in DOMAIN taxCalls :
    (/\ taxCalls[i].monthlyIncome - Yuan(5000) \in Boundaries \ {0}
     /\ taxCalls[j].monthlyIncome = taxCalls[i].monthlyIncome + 100)
      => Abs(taxCalls[j].tax - taxCalls[i].tax) <= 100

\* C4: in every returned result total_personal is the sum of the five
\* personal amounts and total_company the sum of the five company amounts.
C4_TotalsAreSums ==
  Returned =>
    /\ Field("personal_insurance.total_personal")
         = Field("personal_insurance.pension")
           + Field("personal_insurance.unemployment")
           + Field("personal_insurance.injury")
           + Field("personal_insurance.medical")
           + Field("personal_insurance.housing_fund")
    /\ Field("company_insurance.total_company")
         = Field("company_insurance.pension")
           + Field("company_insurance.unemployment")
           + Field("company_insurance.injury")
           + Field("company_insurance.medical")
           + Field("company_insurance.housing_fund")

\* C5: a calculate_wage call whose arguments omit base_salary is rejected
\* with InvalidParams.
C5_MissingBaseSalaryRejected ==
  (WageCall /\ ~Present(request.arguments.base_salary))
    => Rejected("InvalidParams")

\* C6: a calculate_wage call that supplies tax_rate outside [0, 1] is
\* rejected with InvalidParams.
C6_TaxRateOutOfRangeRejected ==
  LET r == request.arguments.tax_rate IN
  (WageCall /\ Present(r) /\ ~(IsNumber(r) /\ r.v >= 0 /\ r.v <= 1000))
    => Rejected("InvalidParams")

\* C7: a tools/call request whose name is not calculate_wage is answered
\* with MethodNotFound whatever its arguments, valid or not.
C7_UnknownToolNotFound ==
  (Answered /\ request.name # "calculate_wage") => Rejected("MethodNotFound")

\* C7 witness: an unknown name with invalid arguments gets MethodNotFound.
C7_Witness ==
  /\ Answered
  /\ request.name # "calculate_wage"
  /\ request.arguments.base_salary = Num(Yuan(-100))
  /\ ~isValidWageArgs(request.arguments)
  /\ Rejected("MethodNotFound")

C9_TaxNeverNegative ==
  Returned =>
    /\ Field("individual_income_tax") >= 0
    /\ Field("taxable_income") <= 0 => Field("individual_income_tax") = 0

\* C9 witness: a result whose taxable income is negative.
C9_Witness ==
  /\ Returned
  /\ Field("taxable_income") < 0
  /\ Field("individual_income_tax") = 0

\* C10: every accepted request has an overtime multiplier of at least the
\* minimum the input schema declares, and overtime_pay is never negative.
C10_OvertimeRateAtLeastMinimum ==
  Returned =>
    /\ Coalesce(request.arguments.overtime_rate, DEFAULT_VALUES.overtime_rate)
         >= inputSchema.overtime_rate.minimum
    /\ Field("overtime_pay") >= 0

\* C11: every returned breakdown is consistent: taxable_income is
\* total_monthly_salary - total_personal - 5000, individual_income_tax is the
\* bracket formula applied to that taxable_income (the allowance taken off
\* once), and net_salary is total_monthly_salary - total_personal - tax.
C11_BreakdownConsistent ==
  Returned =>
    /\ Field("taxable_income")
         = Field("total_monthly_salary")
           - Field("personal_insurance.total_personal") - Yuan(5000)
    /\ Field("individual_income_tax")
         = calculateIndividualIncomeTax(Field("taxable_income") + Yuan(5000))
    /\ Field("net_salary")
         = Field("total_monthly_salary")
           - Field("personal_insurance.total_personal")
           - Field("individual_income_tax")

\* C11 witness: base_salary = 10000, overtime_hours = 0, bonus = 0 gives
\* taxable_income 3360, tax 100.8 and net_salary 8259.2.
C11_Witness ==
  /\ Returned
  /\ request.arguments.base_salary = Num(Yuan(10000))
  /\ request.arguments.overtime_hours = Num(0)
  /\ request.arguments.bonus = Num(0)
  /\ Field("taxable_income") = Yuan(10000) - Field("personal_insurance.total_personal") - Yuan(5000)
  /\ Field("taxable_income") = Yuan(3360)
  /\ Field("individual_income_tax") = 100800
  /\ Field("net_salary") = 8259200

\* C12: in every returned result overtime_pay is overtime_hours times the
\* hourly rate base_salary / 174 (174 working hours a month) times
\* overtime_rate, and that same value is the one in total_monthly_salary.
C12_OvertimeByMonthlyHours ==
  LET overtimeHours ==
        Coalesce(request.arguments.overtime_hours, DEFAULT_VALUES.overtime_hours)
      overtimeRate ==
        Coalesce(request.arguments.overtime_rate, DEFAULT_VALUES.overtime_rate)
  IN Returned =>
       /\ Field("overtime_pay")
            = Mul(Mul(Field("basic"), Times(overtimeHours, 1, 174)), overtimeRate)
       /\ Field("total_monthly_salary")
            = Field("basic") + Field("overtime_pay") + Field("bonus")

\* The number a logged response's result text gives for a member.
FieldOf(resp, key) ==
  LET text == resp.content[1].text
  IN text[CHOOSE i \in DOMAIN text : text[i][1] = key][2]

\* C13: a higher bonus never lowers take-home pay: of two accepted requests
\* with the same base_salary, overtime_hours and overtime_rate, the one with
\* the larger bonus has a net_salary at least as large.
C13_NetMonotoneInBonus ==
  \A i, j \in DOMAIN log :
    LET a == log[i].request.arguments
        b == log[j].request.arguments
    IN (/\ log[i].response.kind = "result"
        /\ log[j].response.kind = "result"
        /\ a.base_salary = b.base_salary
        /\ a.overtime_hours = b.overtime_hours
        /\ a.overtime_rate = b.overtime_rate
        /\ Coalesce(a.bonus, DEFAULT_VALUES.bonus)
             <= Coalesce(b.bonus, DEFAULT_VALUES.bonus))
         => FieldOf(log[i].response, "net_salary")
              <= FieldOf(log[j].response, "net_salary")

====
